---- MODULE Spec2Model ----
(***************************************************************************)
(* PradoWrites: the pure data-transformation functions of the blog and of  *)
(* the Bitcoin dashboard (searchPosts, mergeSeries, compute10DayTicks,     *)
(* computeMvrvDomain, buildAlerts), each under a specification of its own  *)
(* whose Init draws the inputs from bounded sets.                          *)
(*                                                                         *)
(* Conventions.  A JS string is a sequence of one-character strings.  A    *)
(* JS value that may be undefined/null is None or Some(v).  Decimal        *)
(* numbers (MVRV values, domain bounds) are integers counting thousandths, *)
(* computed exactly; timestamps are integers counting milliseconds.        *)
(***************************************************************************)
EXTENDS Integers, Sequences, FiniteSets, TLC

VARIABLES
    \* searchPosts(posts, q, contentMap)
    posts, q, contentMap, results, spc,
    \* mergeSeries(priceArr, mvrvArr)
    priceArr, mvrvArr, i, j, out, mpc,
    \* compute10DayTicks(series)
    series, t, ticks, tpc,
    \* computeMvrvDomain(arr)
    arr, domain, dpc,
    \* buildAlerts(state)
    state, alerts, apc,
    \* Markdown({ text }): h is the string being rewritten, mdStep the number
    \* of replace calls done
    text, h, mdStep,
    \* a call of one of the six functions with arbitrary JS values: the
    \* function, its arguments, and how the call ended
    fn, args, outcome,
    \* the PradoWrites component: the source file it is built from, the
    \* selected slug, the loading flag, the cancelled flag of the index
    \* effect's cleanup, the index fetch, and every body fetch issued so far
    \* (posts and contentMap above are its other two state hooks)
    variant, active, loadingPost, cancelled, indexReq, requests,
    \* the dashboard component: its state hooks, the refreshAll calls in
    \* flight with the status of their four fetches, the number of calls
    \* started, and the fetch whose timeout the latest step has handled
    priceSeries, price, change24h, fngValue, fngClass, mvrv, loading, errors,
    cycles, started, last

searchVars == <<posts, q, contentMap, results, spc>>
mergeVars  == <<priceArr, mvrvArr, i, j, out, mpc>>
tickVars   == <<series, t, ticks, tpc>>
domainVars == <<arr, domain, dpc>>
alertVars  == <<state, alerts, apc>>
mdVars     == <<text, h, mdStep>>
\* the variables of the components around the five functions above
callVars   == <<fn, args, outcome>>
blogVars   == <<variant, active, loadingPost, cancelled, indexReq, requests>>
dashVars   ==
    <<priceSeries, price, change24h, fngValue, fngClass, mvrv, loading, errors,
      cycles, started, last>>
extVars == <<mdVars, callVars, blogVars, dashVars>>
coreVars == <<searchVars, mergeVars, tickVars, domainVars, alertVars>>
vars == <<coreVars, extVars>>

----------------------------------------------------------------------------
(* Bounds of the model *)

MaxPosts == 2       \* posts in a collection
MaxQLen == 2        \* characters in a query
MaxSeries == 3      \* points in a series handed to mergeSeries
MaxTickLen == 2     \* points in a hand-built series handed to compute10DayTicks
MaxArr == 3         \* entries in an array handed to computeMvrvDomain

----------------------------------------------------------------------------
(* JS values *)

None == [some |-> FALSE]
Some(v) == [some |-> TRUE, val |-> v]

\* truthiness of an optional string: undefined, null and "" are falsy
truthyStr(o) == o.some /\ o.val # <<>>

Max(a, b) == IF a >= b THEN a ELSE b
Abs(a) == IF a >= 0 THEN a ELSE 0 - a

\* All sequences over S of length at most n
SeqsUpTo(S, n) == UNION {[1..k -> S] : k \in 0..n}

----------------------------------------------------------------------------
(* searchPosts *)

Alphabet == {"a", "A", "b"}

toLowerCaseChar(c) == IF c = "A" THEN "a" ELSE IF c = "B" THEN "b" ELSE c
toLowerCase(s) == [k \in 1..Len(s) |-> toLowerCaseChar(s[k])]

\* String.prototype.includes: scan the start positions left to right
RECURSIVE includesFrom(_, _, _)
includesFrom(s, sub, k) ==
    IF k + Len(sub) - 1 > Len(s) THEN FALSE
    ELSE IF SubSeq(s, k, k + Len(sub) - 1) = sub THEN TRUE
    ELSE includesFrom(s, sub, k + 1)
includes(s, sub) == includesFrom(s, sub, 1)

\* inTags without lowercasing the tag: a plausible slip
inTagsCaseSensitive(p, query) ==
    p.tags.some /\ \E k \in 1..Len(p.tags.val) : includes(p.tags.val[k], query)
inTags(p, query) ==
    p.tags.some /\ \E k \in 1..Len(p.tags.val) : includes(toLowerCase(p.tags.val[k]), query)

\* the filter callback of searchPosts
matchesPost(p, query, cm) ==
    LET inTitle == includes(toLowerCase(p.title), query)
        inExcerpt == includes(toLowerCase(IF truthyStr(p.excerpt) THEN p.excerpt.val ELSE <<>>), query)
        content == IF cm.some /\ truthyStr(cm.val[p.slug]) THEN cm.val[p.slug].val ELSE <<>>
        inContent == includes(toLowerCase(content), query)
    IN  inTitle \/ inExcerpt \/ inTags(p, query) \/ inContent

\* an empty query answered with no post at all: a plausible slip
searchPostsEmptyGivesNone(ps, qq, cm) ==
    IF ~truthyStr(qq) THEN <<>>
    ELSE LET query == toLowerCase(qq.val)
         IN  SelectSeq(ps, LAMBDA p : matchesPost(p, query, cm))
searchPosts(ps, qq, cm) ==
    IF ~truthyStr(qq) THEN ps
    ELSE LET query == toLowerCase(qq.val)
         IN  SelectSeq(ps, LAMBDA p : matchesPost(p, query, cm))

\* Inputs
Slugs == [k \in 1..MaxPosts |-> k]
Titles == {<<"A", "b">>, <<"b">>}
Excerpts == {None, Some(<<"b", "A">>)}
TagLists == {None, Some(<<>>), Some(<< <<"A">>, <<"b", "b">> >>)}
Bodies == {None, Some(<<>>), Some(<<"a", "A">>)}
Queries == {None} \cup {Some(s) : s \in SeqsUpTo(Alphabet, MaxQLen)}
\* the post at position k carries slug k: slugs are unique in a collection
PostsAt(k) == [slug : {Slugs[k]}, title : Titles, excerpt : Excerpts, tags : TagLists]
PostCollections ==
    UNION {{ps \in [1..n -> UNION {PostsAt(k) : k \in 1..MaxPosts}] :
                \A k \in 1..n : ps[k] \in PostsAt(k)} : n \in 0..MaxPosts}
ContentMaps == {None} \cup {Some(m) : m \in [1..MaxPosts -> Bodies]}

SearchInit ==
    /\ posts \in PostCollections
    /\ q \in Queries
    /\ contentMap \in ContentMaps
    /\ results = <<>>
    /\ spc = "call"
SearchIdle ==
    /\ posts = <<>> /\ q = None /\ contentMap = None /\ results = <<>> /\ spc = "idle"

SearchPosts ==
    /\ spc = "call"
    /\ results' = searchPosts(posts, q, contentMap)
    /\ spc' = "done"
    /\ UNCHANGED <<posts, q, contentMap, mergeVars, tickVars, domainVars, alertVars, extVars>>

----------------------------------------------------------------------------
(* mergeSeries *)

\* 12 * 60 * 60 * 1000
TwelveHours == 43200000

\* the tolerance test with < for <=: a plausible slip
withinToleranceStrict(tp, tm) == Abs(tp - tm) < TwelveHours
withinTolerance(tp, tm) == Abs(tp - tm) <= TwelveHours

\* priceArr[i] and mvrvArr[j] with 0-based i, j: undefined past the end
priceAt(pa, ii) == IF ii < Len(pa) THEN Some(pa[ii + 1]) ELSE None
mvrvAt(ma, jj) == IF jj < Len(ma) THEN Some(ma[jj + 1]) ELSE None

\* the merged branch forgetting j++: a plausible slip
mergeBodyKeepsJ(pa, ma, ii, jj, o) ==
    LET p == priceAt(pa, ii)
        m == mvrvAt(ma, jj)
    IN  IF p.some /\ m.some THEN
            LET tp == p.val.t
                tm == m.val.t
            IN  IF withinTolerance(tp, tm) THEN
                    [i |-> ii + 1, j |-> jj, brk |-> FALSE,
                     out |-> Append(o, [t |-> tp, price |-> Some(p.val.price), mvrv |-> Some(m.val.mvrv)])]
                ELSE IF tp < tm THEN
                    [i |-> ii + 1, j |-> jj, brk |-> FALSE,
                     out |-> Append(o, [t |-> tp, price |-> Some(p.val.price), mvrv |-> None])]
                ELSE
                    [i |-> ii, j |-> jj + 1, brk |-> FALSE,
                     out |-> Append(o, [t |-> tm, price |-> None, mvrv |-> Some(m.val.mvrv)])]
        ELSE IF p.some THEN
            [i |-> ii + 1, j |-> jj, brk |-> FALSE,
             out |-> Append(o, [t |-> p.val.t, price |-> Some(p.val.price), mvrv |-> None])]
        ELSE IF m.some THEN
            [i |-> ii, j |-> jj + 1, brk |-> FALSE,
             out |-> Append(o, [t |-> m.val.t, price |-> None, mvrv |-> Some(m.val.mvrv)])]
        ELSE
            [i |-> ii, j |-> jj, brk |-> TRUE, out |-> o]

\* one iteration of the while body of mergeSeries
mergeBody(pa, ma, ii, jj, o) ==
    LET p == priceAt(pa, ii)
        m == mvrvAt(ma, jj)
    IN  IF p.some /\ m.some THEN
            LET tp == p.val.t
                tm == m.val.t
            IN  IF withinTolerance(tp, tm) THEN
                    [i |-> ii + 1, j |-> jj + 1, brk |-> FALSE,
                     out |-> Append(o, [t |-> tp, price |-> Some(p.val.price), mvrv |-> Some(m.val.mvrv)])]
                ELSE IF tp < tm THEN
                    [i |-> ii + 1, j |-> jj, brk |-> FALSE,
                     out |-> Append(o, [t |-> tp, price |-> Some(p.val.price), mvrv |-> None])]
                ELSE
                    [i |-> ii, j |-> jj + 1, brk |-> FALSE,
                     out |-> Append(o, [t |-> tm, price |-> None, mvrv |-> Some(m.val.mvrv)])]
        ELSE IF p.some THEN
            [i |-> ii + 1, j |-> jj, brk |-> FALSE,
             out |-> Append(o, [t |-> p.val.t, price |-> Some(p.val.price), mvrv |-> None])]
        ELSE IF m.some THEN
            [i |-> ii, j |-> jj + 1, brk |-> FALSE,
             out |-> Append(o, [t |-> m.val.t, price |-> None, mvrv |-> Some(m.val.mvrv)])]
        ELSE
            [i |-> ii, j |-> jj, brk |-> TRUE, out |-> o]

\* the loop condition of mergeSeries
mergeCond == i < Len(priceArr) \/ j < Len(mvrvArr)

\* Inputs: timestamps on a six-hour grid, each series strictly ascending;
\* the k-th price is 60000 + k and the k-th MVRV value 2000 + k
MaxGrid == 5
SixHours == 6 * 60 * 60 * 1000
TimeGrid == {k * SixHours : k \in 0..MaxGrid}
AscendingTimes ==
    {ts \in SeqsUpTo(TimeGrid, MaxSeries) : \A k \in 1..(Len(ts) - 1) : ts[k] < ts[k + 1]}
PriceSeriesOf(ts) == [k \in 1..Len(ts) |-> [t |-> ts[k], price |-> 60000 + k]]
MvrvSeriesOf(ts) == [k \in 1..Len(ts) |-> [t |-> ts[k], mvrv |-> 2000 + k]]

MergeInit ==
    /\ priceArr \in {PriceSeriesOf(ts) : ts \in AscendingTimes}
    /\ mvrvArr \in {MvrvSeriesOf(ts) : ts \in AscendingTimes}
    /\ i = 0 /\ j = 0 /\ out = <<>>
    /\ mpc = "loop"

\* one pass through the while loop
MergeStep ==
    /\ mpc = "loop"
    /\ mergeCond
    /\ LET r == mergeBody(priceArr, mvrvArr, i, j, out)
       IN  /\ i' = r.i /\ j' = r.j /\ out' = r.out
           /\ mpc' = IF r.brk THEN "done" ELSE "loop"
    /\ UNCHANGED <<priceArr, mvrvArr, searchVars, tickVars, domainVars, alertVars, extVars>>

\* the loop condition fails: return out
MergeReturn ==
    /\ mpc = "loop"
    /\ ~mergeCond
    /\ mpc' = "done"
    /\ UNCHANGED <<priceArr, mvrvArr, i, j, out, searchVars, tickVars, domainVars, alertVars, extVars>>

----------------------------------------------------------------------------
(* compute10DayTicks *)

\* 24 * 60 * 60 * 1000
oneDay == 86400000
step == 10 * oneDay

\* A timestamp handed to compute10DayTicks is the number d * oneDay + r of
\* milliseconds, kept as the pair of d and 0 <= r < oneDay: six months of
\* milliseconds do not fit the 32-bit integers of the model checker.
Ts(d, r) == [d |-> d, r |-> r]
tsNorm(d, r) == [d |-> d + (r \div oneDay), r |-> r % oneDay]
\* a + x for a number of milliseconds x
tsPlus(a, x) == tsNorm(a.d, a.r + x)
\* a <= b
tsLeq(a, b) == a.d < b.d \/ (a.d = b.d /\ a.r <= b.r)
\* the JS remainder a % oneDay: it takes the sign of a
jsRemDay(a) == IF a.d >= 0 \/ a.r = 0 THEN a.r ELSE a.r - oneDay

alignedStart(start) == tsPlus(start, 0 - jsRemDay(start))

\* the loop test with end for end + 1: a plausible slip
tickCondNoSlack(tt, end) == tsLeq(tt, end)
tickCond(tt, end) == tsLeq(tt, tsPlus(end, 1))

\* Inputs: hand-built ascending series around day boundaries, before and
\* after the epoch, and series of `days` points one day apart
days == 180
TickTimes == {Ts(d, r) : d \in {-1, 0, 9, 10, 20}, r \in {0, 1, 12 * 60 * 60 * 1000, oneDay - 1}}
DailyStarts == {Ts(d, r) : d \in {-200, -1, 0}, r \in {0, 1, oneDay - 1}}
DailySeries(s0) == [k \in 1..days |-> [t |-> Ts(s0.d + (k - 1), s0.r), price |-> 60000 + k]]
TickSeries ==
    {None}
    \cup {Some(PriceSeriesOf(ts)) :
            ts \in {x \in SeqsUpTo(TickTimes, MaxTickLen) :
                        \A k \in 1..(Len(x) - 1) : x[k] # x[k + 1] /\ tsLeq(x[k], x[k + 1])}}
    \cup {Some(DailySeries(s0)) : s0 \in DailyStarts}

\* !Array.isArray(series) || !series.length
noSeries(sr) == IF sr.some THEN Len(sr.val) = 0 ELSE TRUE

TickInit ==
    /\ series \in TickSeries
    /\ t = Ts(0, 0) /\ ticks = <<>>
    /\ tpc = "call"

\* the early return for a missing or empty series
TickReturnEmpty ==
    /\ tpc = "call"
    /\ noSeries(series)
    /\ ticks' = <<>>
    /\ tpc' = "done"
    /\ UNCHANGED <<series, t, searchVars, mergeVars, domainVars, alertVars, extVars>>

\* start, end, alignedStart and the initialisation of the for loop
TickEnter ==
    /\ tpc = "call"
    /\ ~noSeries(series)
    /\ t' = alignedStart(series.val[1].t)
    /\ ticks' = <<>>
    /\ tpc' = "loop"
    /\ UNCHANGED <<series, searchVars, mergeVars, domainVars, alertVars, extVars>>

\* one pass through the for loop
TickStep ==
    /\ tpc = "loop"
    /\ tickCond(t, series.val[Len(series.val)].t)
    /\ ticks' = Append(ticks, t)
    /\ t' = tsPlus(t, step)
    /\ UNCHANGED <<series, tpc, searchVars, mergeVars, domainVars, alertVars, extVars>>

\* the loop test fails: return ticks
TickReturn ==
    /\ tpc = "loop"
    /\ ~tickCond(t, series.val[Len(series.val)].t)
    /\ tpc' = "done"
    /\ UNCHANGED <<series, t, ticks, searchVars, mergeVars, domainVars, alertVars, extVars>>

----------------------------------------------------------------------------
(* computeMvrvDomain *)

\* Math.floor(x * 10) / 10 and Math.ceil(x * 10) / 10 on thousandths
floorTenth(x) == (x \div 100) * 100
ceilTenth(x) == (0 - ((0 - x) \div 100)) * 100

\* the for loop: mn and mx start at Infinity and -Infinity (None) and take
\* the numeric entries in turn; an entry that is not a number is skipped
RECURSIVE minMaxFrom(_, _, _, _)
minMaxFrom(a, k, mn, mx) ==
    IF k > Len(a) THEN [mn |-> mn, mx |-> mx]
    ELSE LET p == a[k]
         IN  IF p.mvrv.some
             THEN minMaxFrom(a, k + 1,
                     IF ~mn.some \/ p.mvrv.val < mn.val THEN p.mvrv ELSE mn,
                     IF ~mx.some \/ p.mvrv.val > mx.val THEN p.mvrv ELSE mx)
             ELSE minMaxFrom(a, k + 1, mn, mx)

\* the minimum pad of 0.05 left out: a plausible slip
padOfNoMinimum(mn, mx) == (mx - mn) \div 10
\* pad = Math.max(0.05, (mx - mn) * 0.1)
padOf(mn, mx) == Max(50, (mx - mn) \div 10)

computeMvrvDomain(a) ==
    IF noSeries(a) THEN <<0, 4000>>
    ELSE LET mm == minMaxFrom(a.val, 1, None, None)
         IN  IF ~mm.mn.some \/ ~mm.mx.some THEN <<0, 4000>>
             ELSE LET pad == padOf(mm.mn.val, mm.mx.val)
                  IN  <<Max(0, floorTenth(mm.mn.val - pad)), ceilTenth(mm.mx.val + pad)>>

\* Inputs: values with two decimals, in thousandths; None is an entry whose
\* mvrv is not a number
MvrvValues == {-1000, -40, 0, 350, 1800, 2000, 2300}
MvrvEntries == {[mvrv |-> None]} \cup {[mvrv |-> Some(v)] : v \in MvrvValues}
DomainInputs == {None} \cup {Some(a) : a \in SeqsUpTo(MvrvEntries, MaxArr)}

DomainInit ==
    /\ arr \in DomainInputs
    /\ domain = <<0, 0>>
    /\ dpc = "call"

ComputeMvrvDomain ==
    /\ dpc = "call"
    /\ domain' = computeMvrvDomain(arr)
    /\ dpc' = "done"
    /\ UNCHANGED <<arr, searchVars, mergeVars, tickVars, alertVars, extVars>>

----------------------------------------------------------------------------
(* buildAlerts *)

\* Number.prototype.toFixed(2) on thousandths: the value rounded to
\* hundredths, halves away from zero
toFixed2(x) == IF x >= 0 THEN ((x + 5) \div 10) * 10 ELSE 0 - (((0 - x) + 5) \div 10) * 10

\* mv and fg of buildAlerts: the number, or null when state, state.mvrv or
\* the value is missing or not a number
mvOf(st) ==
    IF st.some THEN (IF st.val.mvrv.some THEN st.val.mvrv.val.current ELSE None) ELSE None
\* an unknown sentiment value replaced by the fallback 74 of refreshFNG: a
\* plausible slip
fgOfFallback(st) ==
    IF st.some /\ st.val.fngValue.some THEN st.val.fngValue ELSE Some(74)
fgOf(st) == IF st.some THEN st.val.fngValue ELSE None

\* the HIGH tier tested with > for >=: a plausible slip
mvrvAlertsStrict(mv) ==
    IF ~mv.some THEN <<>>
    ELSE IF mv.val > 3000 THEN
        <<[level |-> "HIGH", title |-> "MVRV Overbought",
           desc |-> <<"MVRV at ", toFixed2(mv.val), " (>= 3.0).">>]>>
    ELSE IF mv.val >= 2500 THEN
        <<[level |-> "MEDIUM", title |-> "MVRV Elevated",
           desc |-> <<"MVRV at ", toFixed2(mv.val), " (>= 2.5).">>]>>
    ELSE <<>>
\* the second tier tested with if for else if: a plausible slip
mvrvAlertsBothTiers(mv) ==
    IF ~mv.some THEN <<>>
    ELSE (IF mv.val >= 3000 THEN
            <<[level |-> "HIGH", title |-> "MVRV Overbought",
               desc |-> <<"MVRV at ", toFixed2(mv.val), " (>= 3.0).">>]>>
          ELSE <<>>)
         \o (IF mv.val >= 2500 THEN
            <<[level |-> "MEDIUM", title |-> "MVRV Elevated",
               desc |-> <<"MVRV at ", toFixed2(mv.val), " (>= 2.5).">>]>>
          ELSE <<>>)
\* the MVRV rule: >= 3.0 first, else >= 2.5
mvrvAlerts(mv) ==
    IF ~mv.some THEN <<>>
    ELSE IF mv.val >= 3000 THEN
        <<[level |-> "HIGH", title |-> "MVRV Overbought",
           desc |-> <<"MVRV at ", toFixed2(mv.val), " (>= 3.0).">>]>>
    ELSE IF mv.val >= 2500 THEN
        <<[level |-> "MEDIUM", title |-> "MVRV Elevated",
           desc |-> <<"MVRV at ", toFixed2(mv.val), " (>= 2.5).">>]>>
    ELSE <<>>

\* the sentiment rule: >= 70
fngAlerts(fg) ==
    IF fg.some /\ fg.val >= 70 THEN
        <<[level |-> "MEDIUM", title |-> "Extreme Greed",
           desc |-> <<"Fear & Greed = ", fg.val, ".">>]>>
    ELSE <<>>

buildAlerts(st) == mvrvAlerts(mvOf(st)) \o fngAlerts(fgOf(st))

\* Inputs: MVRV values in thousandths around the two thresholds, sentiment
\* values 0..100 around its threshold; None is null or a non-number
MvValues == {-1000, 0, 1000, 2490, 2495, 2499, 2500, 2600, 2995, 2999, 3000, 3001, 3100, 5000}
FngValues == {0, 20, 50, 69, 70, 71, 80, 100}
AlertStates ==
    {None} \cup
    {Some([mvrv |-> m, fngValue |-> f]) :
        m \in {None} \cup {Some([current |-> c]) : c \in {None} \cup {Some(v) : v \in MvValues}},
        f \in {None} \cup {Some(v) : v \in FngValues}}

AlertInit ==
    /\ state \in AlertStates
    /\ alerts = <<>>
    /\ apc = "call"

BuildAlerts ==
    /\ apc = "call"
    /\ alerts' = buildAlerts(state)
    /\ apc' = "done"
    /\ UNCHANGED <<state, searchVars, mergeVars, tickVars, domainVars, extVars>>

----------------------------------------------------------------------------
(* Markdown({ text }): an ordered chain of global regex replaces.  A string
   is a sequence of one-character strings; an inserted HTML tag is one
   element, since no tag text holds a newline, asterisk, backtick, bracket
   or parenthesis and so no later pattern can match inside one. *)

MaxTextLen == 4

NoMatch == [len |-> 0, repl |-> <<>>]
\* the literal w stands in s at pos
lit(s, pos, w) ==
    /\ pos + Len(w) - 1 <= Len(s)
    /\ SubSeq(s, pos, pos + Len(w) - 1) = w
\* "^" under the m flag: start of input or just after a line terminator
atLineStart(s, pos) == pos = 1 \/ s[pos - 1] = "\n"
\* ".*" is greedy and "." stops at a newline: the index after the run
RECURSIVE lineEnd(_, _)
lineEnd(s, pos) ==
    IF pos > Len(s) \/ s[pos] = "\n" THEN pos ELSE lineEnd(s, pos + 1)
\* "(.*?)cls": the first index from e where cls stands, no newline before it;
\* 0 when there is none
RECURSIVE findClose(_, _, _)
findClose(s, e, cls) ==
    IF e > Len(s) THEN 0
    ELSE IF lit(s, e, cls) THEN e
    ELSE IF s[e] = "\n" THEN 0
    ELSE findClose(s, e + 1, cls)
\* the backtick character, which a TLA+ string cannot hold
Backtick == "BACKTICK"
\* the class [^`] repeated up to a closing backtick: the next backtick from e, newlines allowed in between
RECURSIVE findBacktick(_, _)
findBacktick(s, e) ==
    IF e > Len(s) THEN 0
    ELSE IF s[e] = Backtick THEN e
    ELSE findBacktick(s, e + 1)

\* /^prefix(.*$)/gim -> open $1 close
matchLine(s, pos, prefix, open, close) ==
    IF atLineStart(s, pos) /\ lit(s, pos, prefix)
    THEN LET e == lineEnd(s, pos + Len(prefix))
         IN  [len |-> e - pos,
              repl |-> <<open>> \o SubSeq(s, pos + Len(prefix), e - 1) \o <<close>>]
    ELSE NoMatch
\* /mark(.*?)mark/gim -> open $1 close
matchSpan(s, pos, mark, open, close) ==
    IF lit(s, pos, mark)
    THEN LET e == findClose(s, pos + Len(mark), mark)
         IN  IF e = 0 THEN NoMatch
             ELSE [len |-> e + Len(mark) - pos,
                   repl |-> <<open>> \o SubSeq(s, pos + Len(mark), e - 1) \o <<close>>]
    ELSE NoMatch
\* the code-span pattern, a backtick, [^`]+ and a backtick -> <code>$1</code>
matchCode(s, pos) ==
    IF s[pos] = Backtick
    THEN LET e == findBacktick(s, pos + 1)
         IN  IF e = 0 \/ e = pos + 1 THEN NoMatch
             ELSE [len |-> e + 1 - pos,
                   repl |-> <<"<code>">> \o SubSeq(s, pos + 1, e - 1) \o <<"</code>">>]
    ELSE NoMatch
\* /^- (.*)/gim: an item at the start of any line, the newline kept
matchListAtLineStart(s, pos) ==
    IF atLineStart(s, pos) /\ lit(s, pos, <<"-", " ">>)
    THEN LET e == lineEnd(s, pos + 2)
         IN  [len |-> e - pos,
              repl |-> <<"<ul>", "<li>">> \o SubSeq(s, pos + 2, e - 1) \o <<"</li>", "</ul>">>]
    ELSE NoMatch
\* /\n- (.*)/gim -> <ul><li>$1</li></ul>
matchList(s, pos) ==
    IF lit(s, pos, <<"\n", "-", " ">>)
    THEN LET e == lineEnd(s, pos + 3)
         IN  [len |-> e - pos,
              repl |-> <<"<ul>", "<li>">> \o SubSeq(s, pos + 3, e - 1) \o <<"</li>", "</ul>">>]
    ELSE NoMatch
\* /\n\n/g -> <br/><br/>
matchBreak(s, pos) ==
    IF lit(s, pos, <<"\n", "\n">>)
    THEN [len |-> 2, repl |-> <<"<br/>", "<br/>">>]
    ELSE NoMatch
\* /\[(.*?)\]\((.*?)\)/g -> <a href="$2">$1</a>
matchLink(s, pos) ==
    IF s[pos] = "["
    THEN LET e1 == findClose(s, pos + 1, <<"]", "(">>)
             e2 == IF e1 = 0 THEN 0 ELSE findClose(s, e1 + 2, <<")">>)
         IN  IF e2 = 0 THEN NoMatch
             ELSE [len |-> e2 + 1 - pos,
                   repl |-> <<"<a href=">> \o SubSeq(s, e1 + 2, e2 - 1) \o <<">">>
                            \o SubSeq(s, pos + 1, e1 - 1) \o <<"</a>">>]
    ELSE NoMatch

\* the replace calls with emphasis before strong
mdRulesItalicFirst ==
    <<"h3", "h2", "h1", "quote", "em", "strong", "code", "list", "break", "link">>
\* the replace calls in the order of the chain
mdRules ==
    <<"h3", "h2", "h1", "quote", "strong", "em", "code", "list", "break", "link">>

matchAt(rule, s, pos) ==
    CASE rule = "h3"     -> matchLine(s, pos, <<"#", "#", "#", " ">>, "<h3>", "</h3>")
      [] rule = "h2"     -> matchLine(s, pos, <<"#", "#", " ">>, "<h2>", "</h2>")
      [] rule = "h1"     -> matchLine(s, pos, <<"#", " ">>, "<h1>", "</h1>")
      [] rule = "quote"  -> matchLine(s, pos, <<">", " ">>, "<blockquote>", "</blockquote>")
      [] rule = "strong" -> matchSpan(s, pos, <<"*", "*">>, "<strong>", "</strong>")
      [] rule = "em"     -> matchSpan(s, pos, <<"*">>, "<em>", "</em>")
      [] rule = "code"   -> matchCode(s, pos)
      [] rule = "list"   -> matchList(s, pos)
      [] rule = "break"  -> matchBreak(s, pos)
      [] rule = "link"   -> matchLink(s, pos)

\* String.prototype.replace with a g-flagged pattern: leftmost matches, the
\* scan resuming after each match
RECURSIVE replaceFrom(_, _, _, _)
replaceFrom(rule, s, pos, acc) ==
    IF pos > Len(s) THEN acc
    ELSE LET m == matchAt(rule, s, pos)
         IN  IF m.len > 0
             THEN replaceFrom(rule, s, pos + m.len, acc \o m.repl)
             ELSE replaceFrom(rule, s, pos + 1, Append(acc, s[pos]))
replace(s, rule) == replaceFrom(rule, s, 1, <<>>)

RECURSIVE renderFrom(_, _)
renderFrom(s, k) ==
    IF k >= Len(mdRules) THEN s ELSE renderFrom(replace(s, mdRules[k + 1]), k + 1)
\* the html the component computes for text
renderMarkdown(s) == renderFrom(s, 0)

\* texts of the model: every string over MdChars up to MaxTextLen, and longer
\* documents that use each construct of the renderer
MdChars == {"#", " ", "\n", "*", "-", "x"}
MdWords == {<<"x">>, <<"y", "x">>}
MdDocument(T, b, it) ==
    <<"#", " ">> \o T \o <<"\n", "\n">> \o <<"*", "*">> \o b \o <<"*", "*">>
        \o <<" ", "e", " ">> \o <<"*">> \o it \o <<"*">>
MdDocuments == {MdDocument(T, b, it) : T \in MdWords, b \in MdWords, it \in MdWords}
MdSamples ==
    { <<"x", "\n", "-", " ", "x", "\n", "-", " ", "y">>,
      <<"-", " ", "x", "\n", "-", " ", "y", "\n", "-", " ", "x", "\n", "-", " ", "y">>,
      <<"#", "#", "#", " ", "x", "\n", "#", "#", " ", "y", "\n", ">", " ", "x">>,
      <<Backtick, "x", "*", Backtick, " ", "[", "x", "]", "(", "u", ")", "\n", "\n", Backtick, Backtick>>,
      <<"[", "x", "]", "(", "u", "\n", ")", "*", "*", "x", "\n", "*", "*">> }
Texts == SeqsUpTo(MdChars, MaxTextLen) \cup MdDocuments \cup MdSamples

MdInit ==
    /\ text \in Texts
    /\ h = text
    /\ mdStep = 0
MdIdle ==
    /\ text = <<>> /\ h = <<>> /\ mdStep = 0

\* one .replace(...) call of the chain
MdReplace ==
    /\ mdStep < Len(mdRules)
    /\ h' = replace(h, mdRules[mdStep + 1])
    /\ mdStep' = mdStep + 1
    /\ UNCHANGED <<text, coreVars, callVars, blogVars, dashVars>>

----------------------------------------------------------------------------
(* The six functions called with arbitrary JS values.  An argument, an array
   entry or a field that may be undefined or null is an optional value; a
   property read or method call on undefined or null raises a TypeError. *)

Returned(v) == [thrown |-> FALSE, val |-> v]
Thrown == [thrown |-> TRUE]

\* p.excerpt with the default left out: a plausible slip
excerptNoDefault(p) == p.excerpt
\* (p.excerpt || ""): the receiver of .toLowerCase()
excerptOrEmpty(p) == IF truthyStr(p.excerpt) THEN p.excerpt ELSE Some(<<>>)
\* the filter callback raises on p.title.toLowerCase() or on the excerpt's
\* .toLowerCase() when the receiver is undefined; tags and content are guarded
matchesPostThrows(p) == ~p.title.some \/ ~excerptOrEmpty(p).some
\* searchPosts returns before touching posts when q is falsy; posts.filter
\* raises on a missing collection
searchPostsThrows(a) ==
    truthyStr(a.q) /\
        (~a.posts.some \/ \E k \in 1..Len(a.posts.val) : matchesPostThrows(a.posts.val[k]))
searchPostsCall(a) ==
    IF searchPostsThrows(a) THEN Thrown
    ELSE IF ~truthyStr(a.q) THEN Returned(a.posts)
    ELSE Returned(Some(searchPosts(
            [k \in 1..Len(a.posts.val) |->
                [slug |-> a.posts.val[k].slug, title |-> a.posts.val[k].title.val,
                 excerpt |-> a.posts.val[k].excerpt, tags |-> a.posts.val[k].tags]],
            a.q, a.contentMap)))

\* text.replace(...) raises on a missing text
markdownCall(a) ==
    IF ~a.text.some THEN Thrown ELSE Returned(renderMarkdown(a.text.val))

\* (priceArr?.length || 0)
lengthOrZero(x) == IF x.some THEN Len(x.val) ELSE 0
\* the loop test is guarded by ?. but priceArr[i] and mvrvArr[j] are not:
\* the first pass raises when one array is missing and the other is not empty
mergeSeriesThrows(a) ==
    (0 < lengthOrZero(a.priceArr) \/ 0 < lengthOrZero(a.mvrvArr))
        /\ (~a.priceArr.some \/ ~a.mvrvArr.some)
RECURSIVE mergeLoop(_, _, _, _, _)
mergeLoop(pa, ma, ii, jj, o) ==
    IF ~(ii < Len(pa) \/ jj < Len(ma)) THEN o
    ELSE LET r == mergeBody(pa, ma, ii, jj, o)
         IN  IF r.brk THEN r.out ELSE mergeLoop(pa, ma, r.i, r.j, r.out)
mergeSeriesCall(a) ==
    IF mergeSeriesThrows(a) THEN Thrown
    ELSE IF ~a.priceArr.some \/ ~a.mvrvArr.some THEN Returned(<<>>)
    ELSE Returned(mergeLoop(a.priceArr.val, a.mvrvArr.val, 0, 0, <<>>))

\* series[0].t and series[series.length - 1].t raise on a missing entry
compute10DayTicksThrows(a) ==
    ~noSeries(a.series) /\ (~a.series.val[1].some \/ ~a.series.val[Len(a.series.val)].some)
RECURSIVE tickLoop(_, _, _)
tickLoop(tt, end, acc) ==
    IF tickCond(tt, end) THEN tickLoop(tsPlus(tt, step), end, Append(acc, tt)) ELSE acc
compute10DayTicksCall(a) ==
    IF compute10DayTicksThrows(a) THEN Thrown
    ELSE IF noSeries(a.series) THEN Returned(<<>>)
    ELSE Returned(tickLoop(alignedStart(a.series.val[1].val.t),
                           a.series.val[Len(a.series.val)].val.t, <<>>))

\* p.mvrv raises on a missing entry
computeMvrvDomainThrows(a) ==
    ~noSeries(a.arr) /\ \E k \in 1..Len(a.arr.val) : ~a.arr.val[k].some
computeMvrvDomainCall(a) ==
    IF computeMvrvDomainThrows(a) THEN Thrown
    ELSE IF noSeries(a.arr) THEN Returned(computeMvrvDomain(a.arr))
    ELSE Returned(computeMvrvDomain(Some([k \in 1..Len(a.arr.val) |-> a.arr.val[k].val])))

\* every property read of buildAlerts is guarded: it never raises
buildAlertsCall(a) == Returned(buildAlerts(a.state))

\* Arguments: those of the sections above, with missing collections, posts
\* without a title and missing array entries added
JsPostsAt(k) == [slug : {Slugs[k]}, title : {None, Some(<<"A", "b">>)},
                 excerpt : Excerpts, tags : TagLists]
JsPostCollections ==
    {None} \cup
    UNION {{Some(ps) : ps \in {x \in [1..n -> UNION {JsPostsAt(k) : k \in 1..MaxPosts}] :
                \A k \in 1..n : x[k] \in JsPostsAt(k)}} : n \in 0..MaxPosts}
JsContentMaps ==
    {None, Some([k \in 1..MaxPosts |-> None]), Some([k \in 1..MaxPosts |-> Some(<<"a", "A">>)])}
JsQueries == {None, Some(<<>>), Some(<<"a">>)}
JsPriceArrs == {None} \cup {Some(PriceSeriesOf(ts)) : ts \in AscendingTimes}
JsMvrvArrs == {None} \cup {Some(MvrvSeriesOf(ts)) : ts \in AscendingTimes}
JsTickSeries ==
    {IF sr.some THEN Some([k \in 1..Len(sr.val) |-> Some(sr.val[k])]) ELSE None : sr \in TickSeries}
    \cup {Some(<<None>>), Some(<<Some([t |-> Ts(0, 0), price |-> 60001]), None>>)}
JsDomainInputs ==
    {None} \cup {Some(a) : a \in SeqsUpTo({None} \cup {Some(e) : e \in MvrvEntries}, MaxArr)}
Calls ==
    [fn : {"searchPosts"},
     args : [posts : JsPostCollections, q : JsQueries, contentMap : JsContentMaps]]
    \cup [fn : {"Markdown"}, args : [text : {None} \cup {Some(x) : x \in Texts}]]
    \cup [fn : {"mergeSeries"}, args : [priceArr : JsPriceArrs, mvrvArr : JsMvrvArrs]]
    \cup [fn : {"compute10DayTicks"}, args : [series : JsTickSeries]]
    \cup [fn : {"computeMvrvDomain"}, args : [arr : JsDomainInputs]]
    \cup [fn : {"buildAlerts"}, args : [state : AlertStates]]

CallInit ==
    /\ \E c \in Calls : fn = c.fn /\ args = c.args
    /\ outcome = None
CallIdle ==
    /\ fn = "none" /\ args = None /\ outcome = None

CallSearchPosts ==
    /\ fn = "searchPosts" /\ outcome = None
    /\ outcome' = Some(searchPostsCall(args))
    /\ UNCHANGED <<fn, args, coreVars, mdVars, blogVars, dashVars>>
CallMarkdown ==
    /\ fn = "Markdown" /\ outcome = None
    /\ outcome' = Some(markdownCall(args))
    /\ UNCHANGED <<fn, args, coreVars, mdVars, blogVars, dashVars>>
CallMergeSeries ==
    /\ fn = "mergeSeries" /\ outcome = None
    /\ outcome' = Some(mergeSeriesCall(args))
    /\ UNCHANGED <<fn, args, coreVars, mdVars, blogVars, dashVars>>
CallCompute10DayTicks ==
    /\ fn = "compute10DayTicks" /\ outcome = None
    /\ outcome' = Some(compute10DayTicksCall(args))
    /\ UNCHANGED <<fn, args, coreVars, mdVars, blogVars, dashVars>>
CallComputeMvrvDomain ==
    /\ fn = "computeMvrvDomain" /\ outcome = None
    /\ outcome' = Some(computeMvrvDomainCall(args))
    /\ UNCHANGED <<fn, args, coreVars, mdVars, blogVars, dashVars>>
CallBuildAlerts ==
    /\ fn = "buildAlerts" /\ outcome = None
    /\ outcome' = Some(buildAlertsCall(args))
    /\ UNCHANGED <<fn, args, coreVars, mdVars, blogVars, dashVars>>

----------------------------------------------------------------------------
(* The PradoWrites component: post index and post bodies.  A handler runs
   with the effects its state updates trigger: the content effect runs again
   whenever active, posts or contentMap has changed. *)

MaxReq == 2         \* body fetches issued in a run
MaxIndex == 2       \* posts in a remote index

\* dates are ISO days, kept as the number yyyymmdd
FALLBACK_POSTS ==
    <<[slug |-> "manifesto", date |-> 20250812],
      [slug |-> "operacao-e-estrategia", date |-> 20250810],
      [slug |-> "mvrv-e-ciclos", date |-> 20250806]>>
\* the body stored for a response that is not ok
NotFound == "# Conteúdo não encontrado"

Variants == {"App.jsx", "part_001"}
\* posts of a remote index: one of the fallback posts and a newer post
RemotePosts ==
    {[slug |-> "manifesto", date |-> 20250812], [slug |-> "novo", date |-> 20250901]}
AllSlugs ==
    {FALLBACK_POSTS[k].slug : k \in 1..Len(FALLBACK_POSTS)} \cup {p.slug : p \in RemotePosts}
\* what /posts/index.json can answer: a rejected request, a status that is
\* not ok, JSON that is not an array, or an array of posts
IndexArrays ==
    {d \in SeqsUpTo(RemotePosts, MaxIndex) :
        \A a, b \in 1..Len(d) : a # b => d[a].slug # d[b].slug}
IndexOutcomes ==
    {[kind |-> "rejected"], [kind |-> "notOk"], [kind |-> "notArray"]}
    \cup {[kind |-> "array", data |-> d] : d \in IndexArrays}
\* what a body fetch can answer
BodyTexts == {"", "texto"}
ContentOutcomes ==
    {[kind |-> "rejected"], [kind |-> "notOk"]} \cup {[kind |-> "ok", txt |-> b] : b \in BodyTexts}

\* data.sort((a, b) => new Date(b.date) - new Date(a.date)): stable
RECURSIVE insertByDateDesc(_, _)
insertByDateDesc(sorted, p) ==
    IF sorted = <<>> THEN <<p>>
    ELSE IF sorted[Len(sorted)].date >= p.date THEN Append(sorted, p)
    ELSE Append(insertByDateDesc(SubSeq(sorted, 1, Len(sorted) - 1), p), sorted[Len(sorted)])
RECURSIVE sortByDateDesc(_)
sortByDateDesc(d) ==
    IF d = <<>> THEN <<>>
    ELSE insertByDateDesc(sortByDateDesc(SubSeq(d, 1, Len(d) - 1)), d[Len(d)])

\* the test without data.length: a plausible slip
acceptsIndexEmptyArray(o, c) == ~c /\ o.kind = "array"
\* !cancelled && Array.isArray(data) && data.length; r.ok ? r.json() : null
\* hands null to the test, a rejection skips it
acceptsIndex(o, c) == ~c /\ o.kind = "array" /\ Len(o.data) > 0
\* the collection handed to setPosts
indexPosts(v, d) == IF v = "part_001" THEN sortByDateDesc(d) ELSE d

\* contentMap[active] is truthy: a stored body other than ""
cached(cm, slug) == cm[slug].some /\ cm[slug].val # ""
\* the content effect: nothing without an active slug, with a cached body or
\* without a post of that slug; otherwise the flag is raised and a fetch sent
contentEffect(act, ps, cm, lp, reqs) ==
    IF act.some /\ ~cached(cm, act.val) /\ (\E k \in 1..Len(ps) : ps[k].slug = act.val)
    THEN [loadingPost |-> TRUE,
          requests |-> Append(reqs, [slug |-> act.val, stored |-> cm[act.val].some,
                                     outcome |-> None])]
    ELSE [loadingPost |-> lp, requests |-> reqs]
\* the key read from the state at the time of the answer, [active]: a
\* plausible slip
storeSlugActive(req, act) == IF act.some THEN act.val ELSE req.slug
\* the key of setContentMap((m) => ({ ...m, [meta.slug]: txt })): meta is
\* the post found when the request was sent
storeSlug(req, act) == req.slug
\* r.ok ? r.text() : "# Conteúdo não encontrado"
bodyOf(o) == IF o.kind = "ok" THEN o.txt ELSE NotFound

BlogInit ==
    /\ variant \in Variants
    /\ active = None
    /\ posts = FALLBACK_POSTS
    /\ contentMap = [s \in AllSlugs |-> None]
    /\ loadingPost = FALSE
    /\ cancelled = FALSE
    /\ indexReq = [status |-> "pending"]
    /\ requests = <<>>
    /\ q = None /\ results = <<>> /\ spc = "idle"
BlogIdle ==
    /\ variant = "none" /\ active = None /\ loadingPost = FALSE /\ cancelled = FALSE
    /\ indexReq = [status |-> "none"] /\ requests = <<>>

blogFrame ==
    <<q, results, spc, mergeVars, tickVars, domainVars, alertVars, mdVars, callVars, dashVars>>

\* onClick of a post of the listing, shown while no post is active
Activate(slug) ==
    /\ ~cancelled
    /\ active = None
    /\ \E k \in 1..Len(posts) : posts[k].slug = slug
    /\ active' = Some(slug)
    /\ LET e == contentEffect(Some(slug), posts, contentMap, loadingPost, requests)
       IN  /\ Len(e.requests) <= MaxReq
           /\ loadingPost' = e.loadingPost
           /\ requests' = e.requests
    /\ UNCHANGED <<variant, posts, contentMap, cancelled, indexReq, blogFrame>>

\* the Voltar button and the header buttons: setActive(null)
GoBack ==
    /\ ~cancelled
    /\ active # None
    /\ active' = None
    /\ UNCHANGED <<variant, posts, contentMap, loadingPost, cancelled, indexReq, requests, blogFrame>>

\* the index fetch settles and its then/catch chain runs
IndexResponse(o) ==
    /\ indexReq.status = "pending"
    /\ indexReq' = [status |-> "settled", kind |-> o.kind]
    /\ IF acceptsIndex(o, cancelled)
       THEN /\ posts' = indexPosts(variant, o.data)
            /\ LET e == contentEffect(active, posts', contentMap, loadingPost, requests)
               IN  /\ Len(e.requests) <= MaxReq
                   /\ loadingPost' = e.loadingPost
                   /\ requests' = e.requests
       ELSE UNCHANGED <<posts, loadingPost, requests>>
    /\ UNCHANGED <<variant, active, contentMap, cancelled, blogFrame>>

\* a body fetch settles and its then/finally chain runs; a rejection skips
\* both then callbacks and reaches finally alone; state updates of an
\* unmounted component are dropped
ContentResponse(n, o) ==
    /\ n \in 1..Len(requests)
    /\ requests[n].outcome = None
    /\ LET settled == [requests EXCEPT ![n].outcome = Some(o)]
       IN  IF cancelled
           THEN /\ requests' = settled
                /\ UNCHANGED <<contentMap, loadingPost>>
           ELSE IF o.kind = "rejected"
           THEN /\ requests' = settled
                /\ loadingPost' = FALSE
                /\ UNCHANGED contentMap
           ELSE /\ contentMap' = [contentMap EXCEPT ![storeSlug(requests[n], active)] =
                                                            Some(bodyOf(o))]
                /\ LET e == contentEffect(active, posts, contentMap', FALSE, settled)
                   IN  /\ Len(e.requests) <= MaxReq
                       /\ loadingPost' = e.loadingPost
                       /\ requests' = e.requests
    /\ UNCHANGED <<variant, active, posts, cancelled, indexReq, blogFrame>>

\* the component unmounts: the cleanup of the index effect runs
Unmount ==
    /\ ~cancelled
    /\ cancelled' = TRUE
    /\ UNCHANGED <<variant, active, posts, contentMap, loadingPost, indexReq, requests, blogFrame>>

----------------------------------------------------------------------------
(* The dashboard component and its refresh cycle.  A series is kept as its
   origin and its number of points; a fetch function is one step from its
   call to the settling of the promise it returns, with the state updates of
   the code that awaits it. *)

MaxCycles == 2      \* refreshAll calls in a run
MaxLive == 2        \* points in a series answered by an endpoint

\* generateMockPriceSeries(days): days points
generateMockPriceSeries(n) == [src |-> "mock", len |-> n]
\* current read one past the end of the array, arr[arr.length]: a plausible
\* slip
generateMockMVRVSeriesPastEnd(n) ==
    [current |-> None, series |-> [src |-> "mock", len |-> IF n > 0 THEN n ELSE 180]]
\* generateMockMVRVSeries(anchorLength): anchorLength points, 180 without a
\* positive length; the values are random, 2.1 stands for the last one
generateMockMVRVSeries(n) ==
    [current |-> Some(2100), series |-> [src |-> "mock", len |-> IF n > 0 THEN n ELSE 180]]

\* what an endpoint can do to a fetch: answer ok with a payload, answer a
\* status that is not ok, or stay silent until the timeout aborts the fetch
Failures == {[kind |-> "http"], [kind |-> "timeout"]}
HistOutcomes == {[kind |-> "ok", len |-> n] : n \in {0, MaxLive}} \cup Failures
PriceOutcomes ==
    {[kind |-> "ok", usd |-> u, chg |-> u] : u \in {None, Some(65000)}} \cup Failures
\* data[0].value of a sentiment payload: the endpoint sends a string of
\* digits; a payload can hold a number instead, or nothing
FngOutcomes ==
    {[kind |-> "ok", value |-> Some([str |-> TRUE, n |-> 80]), cls |-> Some("Extreme Greed")],
     [kind |-> "ok", value |-> Some([str |-> FALSE, n |-> 0]), cls |-> Some("Extreme Fear")],
     [kind |-> "ok", value |-> None, cls |-> None]} \cup Failures
MvrvOutcomes ==
    {[kind |-> "ok", current |-> c, len |-> n] : c \in {None, Some(2300)}, n \in {0, MaxLive}}
    \cup Failures

\* String(e.message) of the error caught by a fetch function
errorMessage(o) == IF o.kind = "http" THEN "http 500" ELSE "aborted"

\* fetchBTC6m: the mapped prices, or a mock series of 180 points
fetchBTC6m(o) ==
    IF o.kind = "ok" THEN [src |-> "live", len |-> o.len] ELSE generateMockPriceSeries(180)
\* fetchBTC
fetchBTC(o) ==
    IF o.kind = "ok" THEN [price |-> o.usd, change24h |-> o.chg, error |-> None]
    ELSE [price |-> None, change24h |-> None, error |-> Some(errorMessage(o))]
\* a JS value is truthy: a string of digits always, a number unless it is 0
truthyValue(v) == v.some /\ (v.val.str \/ v.val.n # 0)
\* the value tested against null instead of for truthiness, v.value != null:
\* a plausible slip
fetchFearGreedKeepsZero(o) ==
    IF o.kind = "ok"
    THEN [value |-> IF o.value.some THEN Some(o.value.val.n) ELSE None,
          classification |-> o.cls, error |-> None]
    ELSE [value |-> None, classification |-> None, error |-> Some(errorMessage(o))]
\* fetchFearGreed: v && v.value ? Number(v.value) : null
fetchFearGreed(o) ==
    IF o.kind = "ok"
    THEN [value |-> IF truthyValue(o.value) THEN Some(o.value.val.n) ELSE None,
          classification |-> o.cls, error |-> None]
    ELSE [value |-> None, classification |-> None, error |-> Some(errorMessage(o))]
\* the mock of the catch block returned with the flag of the try block: a
\* plausible slip
fetchMVRVFlagOnFailure(o) ==
    IF o.kind = "ok"
    THEN [current |-> IF o.current.some THEN o.current
                      ELSE IF o.len > 0 THEN Some(2200) ELSE None,
          series |-> [src |-> "live", len |-> o.len], fromProxy |-> TRUE, error |-> None]
    ELSE LET mock == generateMockMVRVSeries(180)
         IN  [current |-> mock.current, series |-> mock.series, fromProxy |-> TRUE,
              error |-> Some(errorMessage(o))]
\* fetchMVRV: the last live point stands for the current value the payload
\* leaves out; on failure the mock of 180 points
fetchMVRV(o) ==
    IF o.kind = "ok"
    THEN [current |-> IF o.current.some THEN o.current
                      ELSE IF o.len > 0 THEN Some(2200) ELSE None,
          series |-> [src |-> "live", len |-> o.len], fromProxy |-> TRUE, error |-> None]
    ELSE LET mock == generateMockMVRVSeries(180)
         IN  [current |-> mock.current, series |-> mock.series, fromProxy |-> FALSE,
              error |-> Some(errorMessage(o))]
\* r && r.error ? r.error : 'fetch error'
errorOr(r) == IF r.error.some THEN r.error ELSE Some("fetch error")

\* the MVRV refresh left out of the array handed to Promise.all and never
\* called: a plausible slip
startedAfterHistoryNoMvrv == {"price", "fng"}
\* the fetches refreshAll starts one after the other (a plausible slip: the
\* first alone)
startedAfterHistoryPriceOnly == {"price"}
\* the fetches refreshAll starts together once the history is in:
\* Promise.all([refreshPrice(), refreshFNG(), refreshMVRV()])
startedAfterHistory == {"price", "fng", "mvrv"}
\* the three refreshes of a cycle have returned: Promise.all resolves
allSettled(c) == c.price = "done" /\ c.fng = "done" /\ c.mvrv = "done"

\* const alerts = buildAlerts({ mvrv, fngValue }) of each render
dashAlerts ==
    buildAlerts(Some([mvrv |-> Some([current |-> mvrv.current]), fngValue |-> fngValue]))

DashInit ==
    /\ priceSeries = generateMockPriceSeries(180)
    /\ price = None /\ change24h = None
    /\ fngValue = None /\ fngClass = None
    /\ mvrv = [current |-> None, series |-> [src |-> "none", len |-> 0],
               fromProxy |-> FALSE, error |-> None]
    /\ loading = FALSE
    /\ errors = [price |-> None, fng |-> None, mvrv |-> None]
    /\ cycles = <<>>
    /\ started = 0
    /\ last = None
DashIdle ==
    /\ priceSeries = [src |-> "none", len |-> 0]
    /\ price = None /\ change24h = None /\ fngValue = None /\ fngClass = None
    /\ mvrv = None /\ loading = FALSE /\ errors = None /\ cycles = <<>>
    /\ started = 0 /\ last = None

dashFrame == <<coreVars, mdVars, callVars, blogVars>>

\* refreshAll up to its first await: setLoading(true) and the history fetch;
\* closure is the priceSeries of the render whose refreshAll is called
refreshAll(closure) ==
    /\ started < MaxCycles
    /\ started' = started + 1
    /\ last' = None
    /\ loading' = TRUE
    /\ cycles' = Append(cycles, [id |-> started + 1, closure |-> closure, hist |-> "pending",
                                 price |-> "notStarted", fng |-> "notStarted",
                                 mvrv |-> "notStarted"])
    /\ UNCHANGED <<priceSeries, price, change24h, fngValue, fngClass, mvrv, errors, dashFrame>>

\* the mount effect: refreshAll() of the first render
MountRefresh ==
    /\ started = 0
    /\ refreshAll(generateMockPriceSeries(180))
\* setInterval(refreshAll, 60000): the refreshAll of the first render again
TimerRefresh ==
    /\ started > 0
    /\ refreshAll(generateMockPriceSeries(180))
\* the Refresh button, disabled while loading: the refreshAll of this render
ClickRefresh ==
    /\ started > 0
    /\ ~loading
    /\ refreshAll(priceSeries)

\* await fetchBTC6m() settles: the series is taken when it is not empty, and
\* the other refreshes are started
HistorySettles(n, o) ==
    /\ n \in 1..Len(cycles)
    /\ cycles[n].hist = "pending"
    /\ LET hist == fetchBTC6m(o)
       IN  priceSeries' = IF hist.len > 0 THEN hist ELSE priceSeries
    /\ cycles' = [cycles EXCEPT ![n] =
                    [f \in DOMAIN cycles[n] |->
                        IF f = "hist" THEN "done"
                        ELSE IF f \in startedAfterHistory THEN "pending"
                        ELSE cycles[n][f]]]
    /\ last' = IF o.kind = "timeout" THEN Some("hist") ELSE None
    /\ UNCHANGED <<price, change24h, fngValue, fngClass, mvrv, loading, errors, started, dashFrame>>

\* cs without its n-th entry
without(cs, n) == SubSeq(cs, 1, n - 1) \o SubSeq(cs, n + 1, Len(cs))
\* fetch f of the n-th cycle has settled with o; when the three refreshes of
\* the cycle have returned refreshAll ends with setLoading(false)
settle(n, f, o) ==
    LET c == [cycles[n] EXCEPT ![f] = "done"]
    IN  /\ last' = IF o.kind = "timeout" THEN Some(f) ELSE None
        /\ IF allSettled(c)
           THEN cycles' = without(cycles, n) /\ loading' = FALSE
           ELSE cycles' = [cycles EXCEPT ![n] = c] /\ UNCHANGED loading
        /\ UNCHANGED started

\* refreshPrice after await fetchBTC()
PriceSettles(n, o) ==
    /\ n \in 1..Len(cycles)
    /\ cycles[n].price = "pending"
    /\ LET r == fetchBTC(o)
       IN  IF r.price.some
           THEN /\ price' = r.price
                /\ change24h' = r.change24h
                /\ errors' = [errors EXCEPT !.price = None]
           ELSE /\ errors' = [errors EXCEPT !.price = errorOr(r)]
                /\ UNCHANGED <<price, change24h>>
    /\ settle(n, "price", o)
    /\ UNCHANGED <<priceSeries, fngValue, fngClass, mvrv, dashFrame>>

\* refreshFNG after await fetchFearGreed()
FngSettles(n, o) ==
    /\ n \in 1..Len(cycles)
    /\ cycles[n].fng = "pending"
    /\ LET r == fetchFearGreed(o)
       IN  IF r.value.some
           THEN /\ fngValue' = r.value
                /\ fngClass' = IF r.classification.some THEN r.classification ELSE Some("Neutral")
                /\ errors' = [errors EXCEPT !.fng = None]
           ELSE /\ fngValue' = Some(74)
                /\ fngClass' = Some("Greed")
                /\ errors' = [errors EXCEPT !.fng = errorOr(r)]
    /\ settle(n, "fng", o)
    /\ UNCHANGED <<priceSeries, price, change24h, mvrv, dashFrame>>

\* refreshMVRV after await fetchMVRV()
MvrvSettles(n, o) ==
    /\ n \in 1..Len(cycles)
    /\ cycles[n].mvrv = "pending"
    /\ LET r == fetchMVRV(o)
       IN  IF r.series.len > 0
           THEN /\ mvrv' = [current |-> r.current, series |-> r.series,
                            fromProxy |-> r.fromProxy, error |-> None]
                /\ errors' = [errors EXCEPT !.mvrv = None]
           ELSE LET mock == generateMockMVRVSeries(cycles[n].closure.len)
                IN  /\ mvrv' = [current |-> mock.current, series |-> mock.series,
                                fromProxy |-> FALSE, error |-> errorOr(r)]
                    /\ errors' = [errors EXCEPT !.mvrv = errorOr(r)]
    /\ settle(n, "mvrv", o)
    /\ UNCHANGED <<priceSeries, price, change24h, fngValue, fngClass, dashFrame>>

----------------------------------------------------------------------------
(* Idle values of the variables of the functions a specification leaves out *)

MergeIdle ==
    /\ priceArr = <<>> /\ mvrvArr = <<>> /\ i = 0 /\ j = 0 /\ out = <<>> /\ mpc = "idle"
TickIdle ==
    /\ series = None /\ t = Ts(0, 0) /\ ticks = <<>> /\ tpc = "idle"
DomainIdle ==
    /\ arr = None /\ domain = <<0, 0>> /\ dpc = "idle"
AlertIdle ==
    /\ state = None /\ alerts = <<>> /\ apc = "idle"
CoreIdle == SearchIdle /\ MergeIdle /\ TickIdle /\ DomainIdle /\ AlertIdle
ExtIdle == MdIdle /\ CallIdle /\ BlogIdle /\ DashIdle

InitSearch == SearchInit /\ MergeIdle /\ TickIdle /\ DomainIdle /\ AlertIdle /\ ExtIdle
NextSearch == SearchPosts
SpecSearch == InitSearch /\ [][NextSearch]_vars

InitMerge == MergeInit /\ SearchIdle /\ TickIdle /\ DomainIdle /\ AlertIdle /\ ExtIdle
NextMerge == MergeStep \/ MergeReturn
SpecMerge == InitMerge /\ [][NextMerge]_vars
\* the loop is ordinary sequential code: it keeps running until it returns
SpecMergeFair == SpecMerge /\ WF_vars(NextMerge)

InitTicks == TickInit /\ SearchIdle /\ MergeIdle /\ DomainIdle /\ AlertIdle /\ ExtIdle
NextTicks == TickReturnEmpty \/ TickEnter \/ TickStep \/ TickReturn
SpecTicks == InitTicks /\ [][NextTicks]_vars

InitDomain == DomainInit /\ SearchIdle /\ MergeIdle /\ TickIdle /\ AlertIdle /\ ExtIdle
NextDomain == ComputeMvrvDomain
SpecDomain == InitDomain /\ [][NextDomain]_vars

InitAlerts == AlertInit /\ SearchIdle /\ MergeIdle /\ TickIdle /\ DomainIdle /\ ExtIdle
NextAlerts == BuildAlerts
SpecAlerts == InitAlerts /\ [][NextAlerts]_vars

InitMarkdown == MdInit /\ CoreIdle /\ CallIdle /\ BlogIdle /\ DashIdle
NextMarkdown == MdReplace
SpecMarkdown == InitMarkdown /\ [][NextMarkdown]_vars

InitCalls == CallInit /\ CoreIdle /\ MdIdle /\ BlogIdle /\ DashIdle
NextCalls ==
    \/ CallSearchPosts \/ CallMarkdown \/ CallMergeSeries
    \/ CallCompute10DayTicks \/ CallComputeMvrvDomain \/ CallBuildAlerts
SpecCalls == InitCalls /\ [][NextCalls]_vars

InitBlog ==
    BlogInit /\ MergeIdle /\ TickIdle /\ DomainIdle /\ AlertIdle /\ MdIdle /\ CallIdle /\ DashIdle
NextBlog ==
    \/ \E slug \in AllSlugs : Activate(slug)
    \/ GoBack
    \/ \E o \in IndexOutcomes : IndexResponse(o)
    \/ \E n \in 1..MaxReq, o \in ContentOutcomes : ContentResponse(n, o)
    \/ Unmount
SpecBlog == InitBlog /\ [][NextBlog]_vars

InitDash == DashInit /\ CoreIdle /\ MdIdle /\ CallIdle /\ BlogIdle
NextDash ==
    \/ MountRefresh \/ TimerRefresh \/ ClickRefresh
    \/ \E n \in 1..MaxCycles :
        \/ \E o \in HistOutcomes : HistorySettles(n, o)
        \/ \E o \in PriceOutcomes : PriceSettles(n, o)
        \/ \E o \in FngOutcomes : FngSettles(n, o)
        \/ \E o \in MvrvOutcomes : MvrvSettles(n, o)
SpecDash == InitDash /\ [][NextDash]_vars
\* every fetch is aborted at its timeout (10 s, 12 s for the history), so a
\* pending fetch settles and the code after its await runs
DashSettles ==
    \E n \in 1..MaxCycles :
        \/ \E o \in HistOutcomes : HistorySettles(n, o)
        \/ \E o \in PriceOutcomes : PriceSettles(n, o)
        \/ \E o \in FngOutcomes : FngSettles(n, o)
        \/ \E o \in MvrvOutcomes : MvrvSettles(n, o)
SpecDashFair == SpecDash /\ WF_vars(DashSettles)

----------------------------------------------------------------------------
(* Claims about searchPosts *)

\* C1: with an empty or absent query searchPosts returns the input
\* collection itself: same posts, same order, none added or dropped.
C1_EmptyQueryReturnsAll ==
    (spc = "done" /\ (q = None \/ q = Some(<<>>))) => results = posts
C1_Witness ==
    spc = "done" /\ q = Some(<<>>) /\ Len(posts) = MaxPosts /\ results = posts
        /\ contentMap # None

\* what the claim calls a match: lowercase(q) occurs somewhere in the
\* lowercased title, excerpt, a tag, or the body held under the slug
OccursIn(sub, s) ==
    \E a \in 0..Len(s) :
        /\ a + Len(sub) <= Len(s)
        /\ \A k \in 1..Len(sub) : toLowerCaseChar(s[a + k]) = toLowerCaseChar(sub[k])
C2_Matches(p) ==
    \/ OccursIn(q.val, p.title)
    \/ p.excerpt # None /\ OccursIn(q.val, p.excerpt.val)
    \/ p.tags # None /\ \E n \in 1..Len(p.tags.val) : OccursIn(q.val, p.tags.val[n])
    \/ contentMap # None /\ contentMap.val[p.slug] # None
          /\ OccursIn(q.val, contentMap.val[p.slug].val)
C2_Kept == {k \in 1..Len(posts) : C2_Matches(posts[k])}
C2_Nth(n) == CHOOSE k \in C2_Kept : Cardinality({m \in C2_Kept : m <= k}) = n

\* C2: for a non-empty query the result is exactly the subsequence, in
\* input order, of the posts that match by title, excerpt, tag or loaded body.
C2_NonEmptyQueryFilters ==
    (spc = "done" /\ q # None /\ q # Some(<<>>)) =>
        /\ Len(results) = Cardinality(C2_Kept)
        /\ \A n \in 1..Len(results) : results[n] = posts[C2_Nth(n)]
\* a post found through its loaded body only, next to one that is dropped
C2_Witness ==
    /\ spc = "done" /\ q = Some(<<"A", "a">>) /\ Len(posts) = 2
    /\ contentMap # None /\ contentMap.val[2] = Some(<<"a", "A">>)
    /\ results = <<posts[2]>>

----------------------------------------------------------------------------
(* Claims about mergeSeries *)

\* the two-pointer walk of the claim, on the parts of the series still to read
RECURSIVE C3_Walk(_, _)
C3_Walk(ps, ms) ==
    IF ps = <<>> /\ ms = <<>> THEN <<>>
    ELSE IF ms = <<>> THEN
        <<[t |-> ps[1].t, price |-> Some(ps[1].price), mvrv |-> None]>> \o C3_Walk(Tail(ps), ms)
    ELSE IF ps = <<>> THEN
        <<[t |-> ms[1].t, price |-> None, mvrv |-> Some(ms[1].mvrv)]>> \o C3_Walk(ps, Tail(ms))
    ELSE IF ps[1].t - ms[1].t <= 43200000 /\ ms[1].t - ps[1].t <= 43200000 THEN
        <<[t |-> ps[1].t, price |-> Some(ps[1].price), mvrv |-> Some(ms[1].mvrv)]>>
            \o C3_Walk(Tail(ps), Tail(ms))
    ELSE IF ps[1].t < ms[1].t THEN
        <<[t |-> ps[1].t, price |-> Some(ps[1].price), mvrv |-> None]>> \o C3_Walk(Tail(ps), ms)
    ELSE
        <<[t |-> ms[1].t, price |-> None, mvrv |-> Some(ms[1].mvrv)]>> \o C3_Walk(ps, Tail(ms))

\* C3: mergeSeries returns exactly the output of the reference two-pointer
\* walk with a tolerance of 43 200 000 ms, the merged point taking the price
\* point's timestamp.
C3_MergeIsReferenceWalk ==
    mpc = "done" => out = C3_Walk(priceArr, mvrvArr)
\* a pair exactly twelve hours apart is merged, a point eighteen hours
\* apart is emitted alone
C3_Witness ==
    /\ mpc = "done"
    /\ Len(priceArr) = 1 /\ Len(mvrvArr) = 2
    /\ priceArr[1].t = mvrvArr[1].t + TwelveHours
    /\ mvrvArr[2].t = priceArr[1].t + TwelveHours + SixHours
    /\ out = <<[t |-> priceArr[1].t, price |-> Some(60001), mvrv |-> Some(2001)],
               [t |-> mvrvArr[2].t, price |-> None, mvrv |-> Some(2002)]>>

\* C4: the sequence returned by mergeSeries is ascending in t.
C4_OutputAscending ==
    mpc = "done" => \A n \in 1..(Len(out) - 1) : out[n].t <= out[n + 1].t

C5_Merged == {n \in 1..Len(out) : out[n].price # None /\ out[n].mvrv # None}
C5_ExactlyOnce ==
    /\ \A k \in 1..Len(priceArr) :
          Cardinality({n \in 1..Len(out) : out[n].price = Some(priceArr[k].price)}) = 1
    /\ \A k \in 1..Len(mvrvArr) :
          Cardinality({n \in 1..Len(out) : out[n].mvrv = Some(mvrvArr[k].mvrv)}) = 1
    /\ \A n \in 1..Len(out) : out[n].price # None \/ out[n].mvrv # None
\* C5: mergeSeries terminates, every iteration advances a pointer, it stops
\* only with both inputs exhausted, every input point contributes to exactly
\* one output point and |out| = |price| + |mvrv| - merged pairs.
C5_MergeTerminates ==
    /\ <>(mpc = "done")
    /\ [][mpc = "loop" /\ mpc' = "loop" => i' + j' > i + j]_vars
    /\ [](mpc = "done" =>
            /\ i = Len(priceArr) /\ j = Len(mvrvArr)
            /\ C5_ExactlyOnce
            /\ Len(out) = Len(priceArr) + Len(mvrvArr) - Cardinality(C5_Merged))
C5_Witness ==
    /\ mpc = "done" /\ Len(priceArr) >= 2 /\ Len(mvrvArr) >= 2
    /\ Cardinality(C5_Merged) = 1
    /\ Len(out) = Len(priceArr) + Len(mvrvArr) - 1

----------------------------------------------------------------------------
(* Claims about compute10DayTicks *)

C6_s == series.val[1].t
C6_e == series.val[Len(series.val)].t
\* the claim's a = s - (s mod 86 400 000), mod read as the remainder the
\* code takes (sign of s); for s >= 0 it is the usual modulus
C6_a ==
    IF C6_s.d >= 0 THEN Ts(C6_s.d, 0)
    ELSE IF C6_s.r = 0 THEN C6_s ELSE Ts(C6_s.d + 1, 0)
\* x + n * 864 000 000 ms, that is n times ten days later
C6_Plus(x, n) == Ts(x.d + 10 * n, x.r)
C6_Before(x, y) == x.d < y.d \/ (x.d = y.d /\ x.r < y.r)
C6_ePlus1 == IF C6_e.r = 86400000 - 1 THEN Ts(C6_e.d + 1, 0) ELSE Ts(C6_e.d, C6_e.r + 1)

C7_TickRange ==
    (tpc = "done" /\ series # None /\ series # Some(<<>>)) =>
        /\ Len(ticks) >= 1
        /\ ~C6_Before(C6_s, ticks[1])
        /\ ~C6_Before(ticks[Len(ticks)], C6_Plus(C6_e, -1))
        /\ (Len(series.val) = 180 /\ C6_e = Ts(C6_s.d + 179, C6_s.r))
              => Len(ticks) \in 17..19
\* the same without the first two conjuncts: what holds of the ticks of
\* every series, before or after the epoch
C7_TickCount ==
    (tpc = "done" /\ series # None /\ series # Some(<<>>)) =>
        /\ Len(ticks) >= 1 => ~C6_Before(ticks[Len(ticks)], C6_Plus(C6_e, -1))
        /\ (Len(series.val) = 180 /\ C6_e = Ts(C6_s.d + 179, C6_s.r))
              => Len(ticks) \in 17..19

----------------------------------------------------------------------------
(* Claims about computeMvrvDomain *)

C8_Numeric == IF arr = None THEN {} ELSE {arr.val[k].mvrv.val : k \in {n \in 1..Len(arr.val) : arr.val[n].mvrv # None}}
C8_min == CHOOSE v \in C8_Numeric : \A w \in C8_Numeric : v <= w
C8_max == CHOOSE v \in C8_Numeric : \A w \in C8_Numeric : v >= w
\* ten times the pad, in thousandths: max(0.05, (max - min) * 0.1) * 10
C8_pad10 == IF C8_max - C8_min >= 500 THEN C8_max - C8_min ELSE 500
\* floor(x * 10) / 10 and ceil(x * 10) / 10 for x = x10 / 10, in thousandths:
\* the multiple of 0.1 next below, and next above, x
C8_floor(x10) == CHOOSE f \in {100 * n : n \in -40..40} : 10 * f <= x10 /\ x10 < 10 * (f + 100)
C8_ceil(x10) == CHOOSE c \in {100 * n : n \in -40..40} : 10 * (c - 100) < x10 /\ x10 <= 10 * c

\* C8: computeMvrvDomain returns [0, 4] without a numeric value, and otherwise
\* [max(0, floor((min - pad) * 10) / 10), ceil((max + pad) * 10) / 10] with
\* pad = max(0.05, (max - min) * 0.1).
C8_DomainFormula ==
    dpc = "done" =>
        IF C8_Numeric = {} THEN domain = <<0, 4000>>
        ELSE /\ domain[1] = (IF C8_floor(10 * C8_min - C8_pad10) >= 0
                             THEN C8_floor(10 * C8_min - C8_pad10) ELSE 0)
             /\ domain[2] = C8_ceil(10 * C8_max + C8_pad10)
\* the series 1.8, 2.0, 2.3 behind an entry that is not a number
C8_Witness ==
    /\ dpc = "done"
    /\ arr = Some(<<[mvrv |-> None], [mvrv |-> Some(2300)], [mvrv |-> Some(1800)]>>)
    /\ domain = <<1700, 2400>>

\* C9: for every input series the returned pair [lo, hi] satisfies
\* lo <= hi and lo >= 0.
C9_DomainOrdered ==
    dpc = "done" => domain[1] <= domain[2] /\ domain[1] >= 0

----------------------------------------------------------------------------
(* Claims about buildAlerts *)

\* the snapshot: both values known
C10_Known ==
    /\ state # None /\ state.val.mvrv # None /\ state.val.mvrv.val.current # None
    /\ state.val.fngValue # None
C10_mvrv == state.val.mvrv.val.current.val
C10_fng == state.val.fngValue.val
C10_With(level, title) == {n \in 1..Len(alerts) : alerts[n].level = level /\ alerts[n].title = title}
\* the alerts that are none of the three named ones
C10_Others(high, medium) ==
    {n \in 1..Len(alerts) :
        /\ <<alerts[n].level, alerts[n].title>> # <<"HIGH", high>>
        /\ <<alerts[n].level, alerts[n].title>> # <<"MEDIUM", medium>>
        /\ <<alerts[n].level, alerts[n].title>> # <<"MEDIUM", "Extreme Greed">>}
C10_Thresholds(high, medium) ==
    (apc = "done" /\ C10_Known) =>
        /\ Cardinality(C10_With("HIGH", high)) = (IF C10_mvrv >= 3000 THEN 1 ELSE 0)
        /\ Cardinality(C10_With("MEDIUM", medium)) =
              (IF C10_mvrv >= 2500 /\ C10_mvrv < 3000 THEN 1 ELSE 0)
        /\ Cardinality(C10_With("MEDIUM", "Extreme Greed")) = (IF C10_fng >= 70 THEN 1 ELSE 0)
        /\ C10_Others(high, medium) = {}

\* C10 as stated: MVRV >= 3.0 gives one HIGH alert titled "Overbought", MVRV
\* in [2.5, 3.0) one MEDIUM alert titled "Elevated", sentiment >= 70 one
\* MEDIUM alert titled "Extreme Greed", and nothing else is produced.
C10_AsStated == C10_Thresholds("Overbought", "Elevated")

\* C10 (amended): the same thresholds and levels, the two MVRV alerts being
\* titled "MVRV Overbought" and "MVRV Elevated".
C10_AlertThresholds == C10_Thresholds("MVRV Overbought", "MVRV Elevated")
\* MVRV 2.6 with sentiment 50: the one MEDIUM alert
C10_Witness ==
    /\ apc = "done" /\ C10_Known /\ C10_mvrv = 2600 /\ C10_fng = 50
    /\ Len(alerts) = 1 /\ alerts[1].level = "MEDIUM" /\ alerts[1].title = "MVRV Elevated"

\* the alerts of the MVRV rule and those of the sentiment rule, by title
C11_MvrvTier == {n \in 1..Len(alerts) : alerts[n].title \in {"MVRV Overbought", "MVRV Elevated"}}
C11_Sentiment == {n \in 1..Len(alerts) : alerts[n].title = "Extreme Greed"}
C11_MvrvKnown ==
    state # None /\ state.val.mvrv # None /\ state.val.mvrv.val.current # None
C11_FngKnown == state # None /\ state.val.fngValue # None

\* C11: at most one MVRV-tier alert per evaluation; the MVRV rule fires by
\* the MVRV value alone and the sentiment rule by the sentiment value alone;
\* at most 2 alerts, and exactly 2, MVRV first and sentiment second, when
\* MVRV >= 2.5 and sentiment >= 70.
C11_IndependentRules ==
    apc = "done" =>
        /\ Cardinality(C11_MvrvTier) <= 1
        /\ Len(alerts) <= 2
        /\ (C11_MvrvTier # {}) <=> (C11_MvrvKnown /\ state.val.mvrv.val.current.val >= 2500)
        /\ (C11_Sentiment # {}) <=> (C11_FngKnown /\ state.val.fngValue.val >= 70)
        /\ (C11_MvrvKnown /\ state.val.mvrv.val.current.val >= 2500
              /\ C11_FngKnown /\ state.val.fngValue.val >= 70)
              => Len(alerts) = 2 /\ C11_MvrvTier = {1} /\ C11_Sentiment = {2}
\* MVRV 3.1 with sentiment 80: the HIGH alert, then the sentiment alert
C11_Witness ==
    /\ apc = "done" /\ C11_MvrvKnown /\ C11_FngKnown
    /\ state.val.mvrv.val.current.val = 3100 /\ state.val.fngValue.val = 80
    /\ Len(alerts) = 2 /\ alerts[1].level = "HIGH" /\ alerts[2].title = "Extreme Greed"

\* C12: an unknown MVRV value gives no MVRV alert and an unknown sentiment
\* value no sentiment alert, whatever the other signal; with both unknown
\* the alert list is empty.
C12_UnknownGivesNoAlert ==
    apc = "done" =>
        /\ ~C11_MvrvKnown => \A n \in 1..Len(alerts) : alerts[n].title = "Extreme Greed"
        /\ ~C11_FngKnown => \A n \in 1..Len(alerts) : alerts[n].title # "Extreme Greed"
        /\ (~C11_MvrvKnown /\ ~C11_FngKnown) => alerts = <<>>
\* the dashboard's initial state: mvrv.current null, fngValue null
C12_Witness ==
    /\ apc = "done" /\ alerts = <<>>
    /\ state = Some([mvrv |-> Some([current |-> None]), fngValue |-> None])

----------------------------------------------------------------------------
(* Claims about Markdown *)

C13_Rendered == mdStep = Len(mdRules)
C13_Contains(s, w) == \E p \in 1..Len(s) : lit(s, p, w)
C13_Count(s, c) == Cardinality({p \in 1..Len(s) : s[p] = c})
\* C13: for a text whose first line is "# T", followed by a blank line and a
\* line with "**b**" and "*i*", the html holds a level-one heading around T,
\* a strong element around b and an em element around i; the strong markers
\* are not turned into em elements and no asterisk is left over
C13_HeadingBoldItalic ==
    C13_Rendered =>
        \A T \in MdWords, b \in MdWords, it \in MdWords :
            text = MdDocument(T, b, it) =>
                /\ C13_Contains(h, <<"<h1>">> \o T \o <<"</h1>">>)
                /\ C13_Contains(h, <<"<strong>">> \o b \o <<"</strong>">>)
                /\ C13_Contains(h, <<"<em>">> \o it \o <<"</em>">>)
                /\ C13_Count(h, "<em>") = 1
                /\ C13_Count(h, "<strong>") = 1
                /\ C13_Count(h, "*") = 0
C13_Witness ==
    /\ C13_Rendered
    /\ text = MdDocument(<<"y", "x">>, <<"x">>, <<"y", "x">>)
    /\ h = <<"<h1>", "y", "x", "</h1>", "<br/>", "<br/>", "<strong>", "x", "</strong>",
             " ", "e", " ", "<em>", "y", "x", "</em>">>

\* the lines of the text that follow a newline and start with "- "
C14_ItemLines == {p \in 1..Len(text) : lit(text, p, <<"\n", "-", " ">>)}
C14_Containers == {p \in 1..Len(h) : h[p] = "<ul>"}
\* C14: every line that follows a newline and starts with "- " becomes a list
\* container of its own holding one item, so n such lines give n containers;
\* a "- item" on the first line of the text stays as it is
C14_OneListPerLine ==
    C13_Rendered =>
        /\ Cardinality(C14_Containers) = Cardinality(C14_ItemLines)
        /\ \A p \in C14_Containers :
              /\ h[p + 1] = "<li>"
              /\ \E e \in (p + 2)..Len(h) :
                    /\ h[e] = "</li>" /\ e < Len(h) /\ h[e + 1] = "</ul>"
                    /\ \A k \in (p + 2)..(e - 1) : h[k] \notin {"<li>", "<ul>", "</li>", "</ul>"}
        /\ C13_Count(h, "<li>") = Cardinality(C14_Containers)
        /\ lit(text, 1, <<"-", " ">>) => lit(h, 1, <<"-", " ">>)
C14_Witness ==
    /\ C13_Rendered
    /\ text = <<"-", " ", "x", "\n", "-", " ", "y", "\n", "-", " ", "x", "\n", "-", " ", "y">>
    /\ h = <<"-", " ", "x", "<ul>", "<li>", "y", "</li>", "</ul>", "<ul>", "<li>", "x", "</li>",
             "</ul>", "<ul>", "<li>", "y", "</li>", "</ul>">>

----------------------------------------------------------------------------
(* Claims about the six functions together *)

\* the documented domain of each function: collections are present (they
\* may be empty), every post has a title, every array entry is present, the
\* text is a string; the query, the content map, excerpts, tags and metric
\* values may be missing
C15_InDomain ==
    CASE fn = "searchPosts" ->
            args.posts.some /\ \A k \in 1..Len(args.posts.val) : args.posts.val[k].title.some
      [] fn = "Markdown" -> args.text.some
      [] fn = "mergeSeries" -> args.priceArr.some /\ args.mvrvArr.some
      [] fn = "compute10DayTicks" ->
            args.series.some /\ \A k \in 1..Len(args.series.val) : args.series.val[k].some
      [] fn = "computeMvrvDomain" ->
            args.arr.some /\ \A k \in 1..Len(args.arr.val) : args.arr.val[k].some
      [] fn = "buildAlerts" -> TRUE
      [] OTHER -> FALSE
\* the documented default of each function on its empty or unknown input
C15_Default ==
    CASE fn = "searchPosts" ->
            (~truthyStr(args.q) \/ args.posts = Some(<<>>)) => outcome.val.val = args.posts
      [] fn = "Markdown" -> args.text = Some(<<>>) => outcome.val.val = <<>>
      [] fn = "mergeSeries" ->
            (args.priceArr = Some(<<>>) /\ args.mvrvArr = Some(<<>>)) => outcome.val.val = <<>>
      [] fn = "compute10DayTicks" -> args.series = Some(<<>>) => outcome.val.val = <<>>
      [] fn = "computeMvrvDomain" ->
            (\A k \in 1..Len(args.arr.val) : ~args.arr.val[k].val.mvrv.some)
                => outcome.val.val = <<0, 4000>>
      [] fn = "buildAlerts" ->
            (mvOf(args.state) = None /\ fgOf(args.state) = None) => outcome.val.val = <<>>
\* C15: none of the six functions raises on an input of its documented
\* domain, and each returns its default on empty and unknown input
C15_NoRaiseInDomain ==
    (outcome # None /\ C15_InDomain) => (~outcome.val.thrown /\ C15_Default)
C15_Witness ==
    /\ fn = "searchPosts"
    /\ args.contentMap = None
    /\ args.q = Some(<<"a">>)
    /\ args.posts = Some(<<[slug |-> 1, title |-> Some(<<"A", "b">>), excerpt |-> None, tags |-> None]>>)
    /\ outcome = Some(Returned(Some(<<[slug |-> 1, title |-> <<"A", "b">>, excerpt |-> None, tags |-> None]>>)))

----------------------------------------------------------------------------
(* Claims about the PradoWrites component *)

\* C16: the held post collection changes only when the index request
\* answers a non-empty array before the component is unmounted; a failed
\* request, a status that is not ok, a non-array and an empty array leave it
\* as it was
C16_PostsReplacedOnlyByIndex ==
    [][posts' # posts =>
        /\ ~cancelled
        /\ indexReq.status = "pending"
        /\ indexReq'.status = "settled"
        /\ indexReq'.kind = "array"
        /\ posts' # <<>>]_vars
C16_Witness ==
    /\ indexReq = [status |-> "settled", kind |-> "array"]
    /\ ~cancelled
    /\ Len(posts) = 1
    /\ posts[1].slug = "novo"

\* C17: once the collection has been replaced by a loaded remote index it is
\* sorted by date descending
C17_SortedAfterIndex ==
    (indexReq.status = "settled" /\ indexReq.kind = "array" /\ posts # FALLBACK_POSTS) =>
        \A k \in 1..(Len(posts) - 1) : posts[k].date >= posts[k + 1].date

\* C18: when a body fetch of the mounted component ends with a status that
\* is not ok or with a rejection, the placeholder is stored under the slug of
\* the request and the loading flag is false again (unless the same step
\* starts the next fetch)
C18_FailureStoresPlaceholder ==
    [][\A n \in 1..Len(requests) :
        (/\ ~cancelled
         /\ requests[n].outcome = None
         /\ requests'[n].outcome \in {Some([kind |-> "notOk"]), Some([kind |-> "rejected"])})
        => /\ contentMap'[requests[n].slug] = Some(NotFound)
           /\ Len(requests') = Len(requests) => loadingPost' = FALSE]_vars

\* C19: bodies are cached by slug: a slug is requested at most once after a
\* response for it has been stored, and at most one request for a slug is in
\* flight at a time
C19_CachedBySlug ==
    \A slug \in AllSlugs :
        /\ Cardinality({n \in 1..Len(requests) :
                            requests[n].slug = slug /\ requests[n].stored}) <= 1
        /\ Cardinality({n \in 1..Len(requests) :
                            requests[n].slug = slug /\ requests[n].outcome = None}) <= 1

----------------------------------------------------------------------------
(* Claims about the dashboard's refresh cycle *)

C20_Others == {"price", "fng", "mvrv"}
C20_Timeout == [kind |-> "timeout"]
\* the price, sentiment and MVRV fetches of a cycle wait for the history
\* fetch and then start together; each of them can time out whatever the
\* state of the other two
C20_Together ==
    \A n \in 1..Len(cycles) :
        /\ cycles[n].hist = "pending" => \A f \in C20_Others : cycles[n][f] = "notStarted"
        /\ cycles[n].hist = "done" => \A f \in C20_Others : cycles[n][f] \in {"pending", "done"}
        /\ cycles[n].hist = "pending" => ENABLED HistorySettles(n, C20_Timeout)
        /\ cycles[n].price = "pending" => ENABLED PriceSettles(n, C20_Timeout)
        /\ cycles[n].fng = "pending" => ENABLED FngSettles(n, C20_Timeout)
        /\ cycles[n].mvrv = "pending" => ENABLED MvrvSettles(n, C20_Timeout)
\* a step that handles a timed-out fetch puts the fallback in its place
C20_Fallback ==
    last' # None =>
        CASE last'.val = "hist" -> priceSeries' = generateMockPriceSeries(180)
          [] last'.val = "price" ->
                price' = price /\ change24h' = change24h /\ errors'.price = Some("aborted")
          [] last'.val = "fng" -> fngValue' = Some(74) /\ fngClass' = Some("Greed")
          [] last'.val = "mvrv" ->
                mvrv'.series = [src |-> "mock", len |-> 180] /\ ~mvrv'.fromProxy
\* a step that settles one of the three changes the status of no other
\* fetch: a step that starts no cycle touches one cycle; it changes one of
\* its statuses unless it settles its history fetch, and when it ends the
\* cycle it leaves the others as they were
C20_OwnStatusOnly ==
    /\ Len(cycles') = Len(cycles) =>
            \/ cycles' = cycles
            \/ \E n \in 1..Len(cycles) :
                    /\ cycles' = [cycles EXCEPT ![n] = cycles'[n]]
                    /\ cycles'[n].hist = cycles[n].hist =>
                            \E f \in C20_Others :
                                cycles'[n] = [cycles[n] EXCEPT ![f] = cycles'[n][f]]
    /\ Len(cycles') < Len(cycles) =>
            \E n \in 1..Len(cycles) : cycles' = without(cycles, n)
C21_MockAnchoredToPriceSeries ==
    [][last' = Some("mvrv") =>
            /\ mvrv'.series.src = "mock"
            /\ mvrv'.series.len = priceSeries'.len]_vars

\* the MVRV data held came from an answer of the endpoint: the series was
\* mapped from its points and the current value is the one it sent or the
\* last of its points
C22_Live == mvrv.series.src = "live" /\ mvrv.current \in {Some(2200), Some(2300)}
\* the MVRV data held is the initial empty state or a generated mock
C22_InitialOrMock ==
    \/ mvrv.series.src = "none" /\ mvrv.current = None
    \/ mvrv.series.src = "mock" /\ mvrv.current = Some(2100)
\* C22: in every reachable state mvrv.fromProxy is true exactly when the
\* MVRV series and current value held came from a successful answer of the
\* MVRV endpoint; it is false in the initial state and while a mock is held
C22_FromProxyIffLive ==
    /\ mvrv.fromProxy <=> C22_Live
    /\ ~mvrv.fromProxy <=> C22_InitialOrMock
\* live MVRV data held when a second cycle has been started and a sentiment
\* fetch has timed out
C22_Witness ==
    /\ mvrv.fromProxy /\ C22_Live
    /\ started = 2
    /\ errors.fng = Some("aborted")

\* the first MVRV refresh has completed: a cycle has ended, or the MVRV
\* refresh of a cycle in flight has returned
C23_MvrvRefreshed ==
    started > Len(cycles) \/ \E n \in 1..Len(cycles) : cycles[n].mvrv = "done"
\* C23: in every reachable state the price series is not empty, and once the
\* first MVRV refresh has completed the MVRV series is not empty and the
\* MVRV current value is a number, whatever the outcomes of the fetches
C23_ChartNeverEmpty ==
    /\ priceSeries.len > 0
    /\ C23_MvrvRefreshed => mvrv.series.len > 0 /\ mvrv.current.some
\* no live history is held, the price fetch failed and the MVRV endpoint
\* answered an empty series: a mock price series and a mock MVRV series of
\* its length are held
C23_Witness ==
    /\ C23_MvrvRefreshed
    /\ priceSeries = generateMockPriceSeries(180)
    /\ mvrv.series = [src |-> "mock", len |-> 180]
    /\ mvrv.error = Some("fetch error")
    /\ errors.price = Some("http 500")

\* C24: the loading flag is true whenever at least one refresh cycle is in
\* flight
C24_LoadingWhileInFlight == Len(cycles) > 0 => loading

\* the ids of the cycles that have run fetch f to its end: those that have
\* ended and those in flight whose f has returned
C25_Settled(f) ==
    {k \in 1..started :
        \A n \in 1..Len(cycles) : cycles[n].id = k => cycles[n][f] = "done"}
\* fetch f of the cycle with this id returns in this step
C25_Returns(k, f) ==
    /\ \E n \in 1..Len(cycles) : cycles[n].id = k /\ cycles[n][f] = "pending"
    /\ \A m \in 1..Len(cycles') : cycles'[m].id = k => cycles'[m][f] = "done"
\* this step replaces the displayed data that fetch f feeds
C25_Overwrites(f) ==
    CASE f = "hist" -> priceSeries' # priceSeries
      [] f = "price" -> price' # price \/ change24h' # change24h
      [] f = "fng" -> fngValue' # fngValue \/ fngClass' # fngClass
      [] f = "mvrv" -> mvrv' # mvrv
\* C25: an older cycle never overwrites the result of a newer one: no fetch
\* of a cycle returns and replaces the displayed data after the same fetch
\* of a cycle started later has returned
C25_NoStaleOverwrite ==
    [][\A k \in 1..started, f \in {"hist", "price", "fng", "mvrv"} :
            (C25_Returns(k, f) /\ C25_Overwrites(f))
                => \A newer \in C25_Settled(f) : newer < k]_vars

\* the cycle with this id is in flight
C26_InFlight(k) == \E n \in 1..Len(cycles) : cycles[n].id = k
\* the step that ends a cycle is its setLoading(false)
C26_EndResetsLoading == Len(cycles') < Len(cycles) => ~loading'
\* C26: every started refreshAll reaches its setLoading(false), whatever the
\* outcomes of its fetches, and the loading flag never stays true for ever
C26_EveryCycleCompletes ==
    /\ \A k \in 1..MaxCycles : [](C26_InFlight(k) => <>(started >= k /\ ~C26_InFlight(k)))
    /\ [][C26_EndResetsLoading]_vars
    /\ [](loading => <>(~loading))
\* both cycles have ended after malformed payloads from the price and
\* sentiment endpoints and an empty MVRV series; the flag is down
C26_Witness ==
    /\ started = MaxCycles /\ cycles = <<>> /\ ~loading
    /\ errors = [price |-> Some("fetch error"), fng |-> Some("fetch error"),
                 mvrv |-> Some("fetch error")]

\* C27: after a completed MVRV refresh the error notice tells the source of
\* the data: errors.mvrv and mvrv.error are set exactly when the data held is
\* not live data of the MVRV endpoint
C27_ErrorIffNotLive ==
    C23_MvrvRefreshed =>
        /\ errors.mvrv # None <=> mvrv.series.src # "live"
        /\ mvrv.error # None <=> mvrv.series.src # "live"

\* the sentiment payload or failure gives refreshFNG no numeric value: the
\* fetch failed or timed out, the value is missing, or it is the number 0
C28_NoNumber(o) ==
    o.kind # "ok" \/ o.value = None \/ (~o.value.val.str /\ o.value.val.n = 0)
C28_ExtremeGreed ==
    [level |-> "MEDIUM", title |-> "Extreme Greed", desc |-> <<"Fear & Greed = ", 74, ".">>]
\* fetch f of the n-th cycle in flight returns in this step
C28_Returns(n, f) ==
    /\ cycles[n][f] = "pending"
    /\ Len(cycles') < Len(cycles) \/ (Len(cycles') = Len(cycles) /\ cycles'[n][f] = "done")
\* a sentiment refresh without a numeric value stores 74 / "Greed" over
\* whatever was held, records errors.fng, and the alerts of the next render
\* hold the MEDIUM "Extreme Greed" alert
C28_SentimentFallback ==
    \A n \in 1..Len(cycles) : C28_Returns(n, "fng") =>
        \A o \in FngOutcomes : (C28_NoNumber(o) /\ FngSettles(n, o)) =>
            /\ fngValue' = Some(74) /\ fngClass' = Some("Greed")
            /\ errors'.fng # None
            /\ \E k \in 1..Len(dashAlerts') : dashAlerts'[k] = C28_ExtremeGreed
\* a price refresh that fails keeps price and change24h and only sets
\* errors.price
C28_PriceKept ==
    \A n \in 1..Len(cycles) : C28_Returns(n, "price") =>
        \A o \in PriceOutcomes : (o.kind # "ok" /\ PriceSettles(n, o)) =>
            /\ price' = price /\ change24h' = change24h
            /\ errors'.price # None
            /\ errors'.fng = errors.fng /\ errors'.mvrv = errors.mvrv
            /\ UNCHANGED <<priceSeries, fngValue, fngClass, mvrv>>
\* C28: a sentiment refresh that obtains no numeric value (failure, timeout,
\* numeric 0 in the payload) sets 74 / "Greed" over any live value, records
\* errors.fng and so raises the MEDIUM "Extreme Greed" alert; a failed price
\* refresh leaves price and change24h unchanged and only sets errors.price
C28_FallbackAsymmetry == [][C28_SentimentFallback /\ C28_PriceKept]_vars
\* the second cycle's sentiment payload held no numeric value and its price
\* fetch timed out: 74 / "Greed" is held with the alert, the price of the
\* first cycle is still shown
C28_Witness ==
    /\ started = 2
    /\ fngValue = Some(74) /\ fngClass = Some("Greed") /\ errors.fng = Some("fetch error")
    /\ \E k \in 1..Len(dashAlerts) : dashAlerts[k] = C28_ExtremeGreed
    /\ price = Some(65000) /\ errors.price = Some("aborted")

----------------------------------------------------------------------------
(* Claims about the post view's loading flag and the body cache *)

\* the body fetch with this index settles in this step
C29_Settles(n) == requests[n].outcome = None /\ requests'[n].outcome # None
\* C29: while a body fetch of the active post is in flight, the completion
\* of a fetch for another post does not reset loadingPost to false
C29_NotResetByOtherPost ==
    [][\A n \in 1..Len(requests) :
            (/\ C29_Settles(n)
             /\ ~cancelled
             /\ active # None
             /\ requests[n].slug # active.val
             /\ \E m \in 1..Len(requests) :
                    m # n /\ requests[m].slug = active.val /\ requests'[m].outcome = None)
                => loadingPost']_vars

\* the bodies the answered requests for this slug have produced
C30_BodiesFor(s) ==
    {bodyOf(requests[n].outcome.val) :
        n \in {m \in 1..Len(requests) :
                    /\ requests[m].slug = s
                    /\ requests[m].outcome # None
                    /\ requests[m].outcome.val.kind # "rejected"}}
\* every entry of contentMap is the answer (or the placeholder) of a request
\* sent for its slug
C30_UnderOwnSlug ==
    \A s \in AllSlugs : contentMap[s].some => contentMap[s].val \in C30_BodiesFor(s)
\* a step that changes contentMap changes the entry of the request it
\* settles and no other
C30_OthersUnchanged ==
    contentMap' # contentMap =>
        \E n \in 1..Len(requests) :
            /\ requests[n].outcome = None /\ requests'[n].outcome # None
            /\ \A s \in AllSlugs \ {requests[n].slug} : contentMap'[s] = contentMap[s]
\* C30: a fetched body is stored under the slug of the post it was requested
\* for, also when the active post has changed or been cleared before the
\* answer, and storing it leaves the entries of the other slugs unchanged
C30_StoredUnderRequestedSlug == []C30_UnderOwnSlug /\ [][C30_OthersUnchanged]_vars
\* the body of "manifesto" is held under its own slug while another post is
\* active, whose own entry is still empty
C30_Witness ==
    /\ active = Some("operacao-e-estrategia")
    /\ contentMap["manifesto"] = Some("texto")
    /\ contentMap["operacao-e-estrategia"] = None
    /\ requests[1].slug = "manifesto" /\ requests[1].outcome # None
====
